---- MODULE Spec2Model ----
(***************************************************************************)
(* Model of src/app.py: the builder readiness engine (tech-stack           *)
(* normalisation, skill match, answer quality, final readiness), the       *)
(* evaluation orchestrator and the in-memory idea/interest store with its  *)
(* three request handlers.                                                 *)
(*                                                                         *)
(* Representation.                                                         *)
(*   - A Python str is a sequence of one-character strings.                *)
(*   - A Python float is an exact reduced fraction [n |-> , d |-> ].       *)
(*     Every float the program produces is within a few ulps of such a     *)
(*     fraction; the only place where the ulps decide a result is a        *)
(*     round() whose exact argument lies half way between two decimals.    *)
(*     There the double the program holds lies on either side, so round()  *)
(*     takes a parameter tie \in Ties and both outcomes are admitted.      *)
(*   - A JSON value handed to normalize_tech_stack is [kind, val] with     *)
(*     kind "list" (val a sequence of str), "str" (val a str) or "none".   *)
(***************************************************************************)
EXTENDS Integers, Sequences, FiniteSets, TLC

VARIABLES IDEAS, resp, pc, frame, call, ret

vars == <<IDEAS, resp, pc, frame, call, ret>>

(***************************************************************************)
(* Bounds of the model.                                                    *)
(***************************************************************************)
MaxStack == 5
MaxAnswers == 4
MaxTokens == 2
MaxIdeas == 2
MaxInterests == 2
MaxThreads == 4

(***************************************************************************)
(* Arithmetic on exact fractions.                                          *)
(***************************************************************************)
RECURSIVE GCD(_, _)
GCD(a, b) == IF b = 0 THEN a ELSE GCD(b, a % b)

Rat(num, den) ==
  LET g == GCD(IF num < 0 THEN -num ELSE num, den)
  IN  [n |-> num \div g, d |-> den \div g]

RAdd(x, y) == Rat(x.n * y.d + y.n * x.d, x.d * y.d)
RMul(x, y) == Rat(x.n * y.n, x.d * y.d)
RDiv(x, k) == Rat(x.n, x.d * k)
RLt(x, y) == x.n * y.d < y.n * x.d
RLe(x, y) == x.n * y.d <= y.n * x.d
RMin(x, y) == IF RLt(y, x) THEN y ELSE x

RECURSIVE Pow10(_)
Pow10(k) == IF k = 0 THEN 1 ELSE 10 * Pow10(k - 1)

Ties == {"down", "up"}

\* round(x, ndigits) of a non-negative float: the nearest multiple of
\* 10^-ndigits; at an exact half, the side the double happens to lie on.
round(x, ndigits, tie) ==
  LET scaled == x.n * Pow10(ndigits)
      q == scaled \div x.d
      r == scaled % x.d
      up == \/ 2 * r > x.d
            \/ 2 * r = x.d /\ tie = "up"
  IN  Rat(IF up THEN q + 1 ELSE q, Pow10(ndigits))

(***************************************************************************)
(* Python str operations on character sequences.                           *)
(***************************************************************************)
Whitespace == {" ", "\t", "\n"}

UpperLetters == <<"A", "B", "C", "D", "E", "F", "G", "H", "I", "J", "K", "L", "M",
                  "N", "O", "P", "Q", "R", "S", "T", "U", "V", "W", "X", "Y", "Z">>
LowerLetters == <<"a", "b", "c", "d", "e", "f", "g", "h", "i", "j", "k", "l", "m",
                  "n", "o", "p", "q", "r", "s", "t", "u", "v", "w", "x", "y", "z">>

LowerChar(c) ==
  IF \E i \in DOMAIN UpperLetters : UpperLetters[i] = c
  THEN LowerLetters[CHOOSE i \in DOMAIN UpperLetters : UpperLetters[i] = c]
  ELSE c

\* str.lower()
lower(s) == [i \in 1..Len(s) |-> LowerChar(s[i])]

SetMin(S) == CHOOSE x \in S : \A y \in S : x <= y
SetMax(S) == CHOOSE x \in S : \A y \in S : x >= y

\* str.strip(): drops the leading and the trailing whitespace.
strip(s) ==
  LET keep == {i \in 1..Len(s) : s[i] \notin Whitespace}
  IN  IF keep = {} THEN <<>> ELSE SubSeq(s, SetMin(keep), SetMax(keep))

\* str.split(sep) for a one-character separator: always at least one piece.
RECURSIVE split(_, _)
split(s, sep) ==
  LET at == {i \in 1..Len(s) : s[i] = sep}
  IN  IF at = {} THEN <<s>>
      ELSE <<SubSeq(s, 1, SetMin(at) - 1)>>
             \o split(SubSeq(s, SetMin(at) + 1, Len(s)), sep)

\* tok in txt
Contains(txt, tok) ==
  \E i \in 1..(Len(txt) - Len(tok) + 1) : SubSeq(txt, i, i + Len(tok) - 1) = tok

Range(s) == {s[i] : i \in DOMAIN s}

RECURSIVE Sum(_)
Sum(s) == IF s = <<>> THEN Rat(0, 1) ELSE RAdd(Head(s), Sum(Tail(s)))

(***************************************************************************)
(* Normalization helpers.                                                  *)
(***************************************************************************)
NonEmpty(s) == s # <<>>

\* Mutant: a token is tested stripped but kept as written.
normalize_tech_stack_Unstripped(value) ==
  LET Kept(v) == strip(v) # <<>>
  IN  IF value.kind = "list" THEN SelectSeq(value.val, Kept)
      ELSE IF value.kind = "str" THEN SelectSeq(split(value.val, ","), Kept)
      ELSE <<>>

normalize_tech_stack(value) ==
  IF value.kind = "list"
  THEN SelectSeq([i \in 1..Len(value.val) |-> strip(value.val[i])], NonEmpty)
  ELSE IF value.kind = "str"
  THEN LET pieces == split(value.val, ",")
       IN  SelectSeq([i \in 1..Len(pieces) |-> strip(pieces[i])], NonEmpty)
  ELSE <<>>

(***************************************************************************)
(* Score helpers.                                                          *)
(***************************************************************************)
\* Mutant: the token sets are compared without lower-casing.
compute_skill_match_NoLower(idea_tech_stack, builder_tech_stack) ==
  LET idea_set == Range(normalize_tech_stack(idea_tech_stack))
      builder_set == Range(normalize_tech_stack(builder_tech_stack))
      match == idea_set \cap builder_set
  IN  IF idea_set = {} THEN Rat(0, 1)
      ELSE IF match = {} THEN Rat(0, 1)
      ELSE Rat(Cardinality(match), Cardinality(idea_set))

compute_skill_match(idea_tech_stack, builder_tech_stack) ==
  LET idea_set == {lower(t) : t \in Range(normalize_tech_stack(idea_tech_stack))}
      builder_set == {lower(t) : t \in Range(normalize_tech_stack(builder_tech_stack))}
      match == idea_set \cap builder_set
  IN  IF idea_set = {} THEN Rat(0, 1)
      ELSE IF match = {} THEN Rat(0, 1)
      ELSE Rat(Cardinality(match), Cardinality(idea_set))

bad_tokens ==
  << <<"i", " ", "d", "o", "n", "t", " ", "k", "n", "o", "w">>,
     <<"i", " ", "d", "o", "n", "'", "t", " ", "k", "n", "o", "w">>,
     <<"i", "d", "k">>, <<"n", "o", "t", " ", "s", "u", "r", "e">>,
     <<"n", "o", " ", "i", "d", "e", "a">>, <<"n", "a">>, <<"n", "/", "a">>,
     <<"n", "o", "t", "h", "i", "n", "g">>, <<"n", "o", "p", "e">> >>

ShortLen == 20
MidLen == 50

\* Mutant: the low-effort phrases are looked for in short answers only.
answer_score_LengthFirst(ans) ==
  LET txt == lower(strip(ans))
  IN  IF Len(txt) < ShortLen
      THEN IF \E k \in DOMAIN bad_tokens : Contains(txt, bad_tokens[k])
           THEN Rat(0, 1) ELSE Rat(2, 10)
      ELSE IF Len(txt) < MidLen THEN Rat(5, 10)
      ELSE Rat(9, 10)

\* The loop body of compute_answer_quality: the score of one answer.
answer_score(ans) ==
  LET txt == lower(strip(ans))
  IN  IF \E k \in DOMAIN bad_tokens : Contains(txt, bad_tokens[k]) THEN Rat(0, 1)
      ELSE IF Len(txt) < ShortLen THEN Rat(2, 10)
      ELSE IF Len(txt) < MidLen THEN Rat(5, 10)
      ELSE Rat(9, 10)

compute_answer_quality(answers, tie) ==
  IF answers = <<>> THEN Rat(0, 1)
  ELSE LET scores == [i \in 1..Len(answers) |-> answer_score(answers[i])]
       IN  round(RDiv(Sum(scores), Len(scores)), 2, tie)

\* Mutant: the low-quality cap also applies at answer_quality = 0.25.
compute_final_readiness_CapAtThreshold(skill_match, answer_quality, tie) ==
  LET base == RAdd(RMul(skill_match, Rat(55, 100)), RMul(answer_quality, Rat(45, 100)))
      score == RMul(base, Rat(10, 1))
  IN  IF skill_match = Rat(0, 1) THEN round(RMin(score, Rat(25, 10)), 1, tie)
      ELSE IF RLe(answer_quality, Rat(25, 100)) THEN round(RMin(score, Rat(30, 10)), 1, tie)
      ELSE round(score, 1, tie)

\* Mutant: the two weights are both applied to the skill match.
compute_final_readiness_Weights(skill_match, answer_quality, tie) ==
  LET base == RAdd(RMul(skill_match, Rat(55, 100)), RMul(skill_match, Rat(45, 100)))
      score == RMul(base, Rat(10, 1))
  IN  IF skill_match = Rat(0, 1) THEN round(RMin(score, Rat(25, 10)), 1, tie)
      ELSE IF RLt(answer_quality, Rat(25, 100)) THEN round(RMin(score, Rat(30, 10)), 1, tie)
      ELSE round(score, 1, tie)

compute_final_readiness(skill_match, answer_quality, tie) ==
  LET base == RAdd(RMul(skill_match, Rat(55, 100)), RMul(answer_quality, Rat(45, 100)))
      score == RMul(base, Rat(10, 1))
  IN  IF skill_match = Rat(0, 1) THEN round(RMin(score, Rat(25, 10)), 1, tie)
      ELSE IF RLt(answer_quality, Rat(25, 100)) THEN round(RMin(score, Rat(30, 10)), 1, tie)
      ELSE round(score, 1, tie)

(***************************************************************************)
(* Idle values of the parts of the state a specification does not use.     *)
(***************************************************************************)
Threads == 1..MaxThreads
NoResp == [op |-> "none", status |-> 0]
NoFrame == [op |-> "none"]
NoCall == [fn |-> "none"]

StoreIdle ==
  /\ IDEAS = <<>>
  /\ resp = NoResp
  /\ pc = [t \in Threads |-> "idle"]
  /\ frame = [t \in Threads |-> NoFrame]

(***************************************************************************)
(* The engine's pure functions, each called once on an input drawn from a  *)
(* bounded set: call holds the arguments, ret the returned value (<<>>     *)
(* before the call returns).                                               *)
(***************************************************************************)
\* skill_match values: |match| / |idea_set| for idea sets of up to MaxStack tokens.
SkillRatios == UNION {{Rat(m, k) : m \in 0..k} : k \in 1..MaxStack}

\* answer_quality values: two-decimal floats up to the best per-answer score.
QualityGrid == {q \in {Rat(h, 100) : h \in 0..100} : RLe(q, Rat(9, 10))}

InitReadiness ==
  /\ StoreIdle
  /\ call \in [fn : {"compute_final_readiness"},
               skill_match : SkillRatios, answer_quality : QualityGrid]
  /\ ret = <<>>

CallFinalReadiness ==
  /\ call.fn = "compute_final_readiness"
  /\ ret = <<>>
  /\ \E tie \in Ties :
       ret' = <<compute_final_readiness(call.skill_match, call.answer_quality, tie)>>
  /\ UNCHANGED <<IDEAS, resp, pc, frame, call>>

SpecReadiness == InitReadiness /\ [][CallFinalReadiness]_vars

\* Raw tokens a tech stack is written with: mixed case, padded, a token that
\* is a prefix of another, and one that is only whitespace.
RawTokens == { <<"a">>, <<"A", " ">>, <<" ", "b">>, <<"a", "b">>, <<" ">> }

TokenSeqs == UNION {[1..k -> RawTokens] : k \in 0..MaxTokens}

RECURSIVE Join(_, _)
Join(parts, sep) ==
  IF parts = <<>> THEN <<>>
  ELSE IF Len(parts) = 1 THEN parts[1]
  ELSE parts[1] \o <<sep>> \o Join(Tail(parts), sep)

ListValue(items) == [kind |-> "list", val |-> items]
StrValue(text) == [kind |-> "str", val |-> text]
NoneValue == [kind |-> "none", val |-> <<>>]

StackValues ==
  {ListValue(ts) : ts \in TokenSeqs}
    \cup {StrValue(Join(ts, ",")) : ts \in TokenSeqs}
    \cup {NoneValue}

InitSkill ==
  /\ StoreIdle
  /\ call \in [fn : {"compute_skill_match"},
               idea_tech_stack : StackValues, builder_tech_stack : StackValues]
  /\ ret = <<>>

CallSkillMatch ==
  /\ call.fn = "compute_skill_match"
  /\ ret = <<>>
  /\ ret' = <<compute_skill_match(call.idea_tech_stack, call.builder_tech_stack)>>
  /\ UNCHANGED <<IDEAS, resp, pc, frame, call>>

SpecSkill == InitSkill /\ [][CallSkillMatch]_vars

Filler(k) == [i \in 1..k |-> "x"]

\* Answers around the two length thresholds, one of them padded, and
\* low-effort phrases in upper case and inside a word of a long answer.
AnswerCatalogue ==
  { <<" ">> \o Filler(ShortLen - 1) \o <<" ", "\n">>,
    Filler(ShortLen),
    Filler(MidLen - 1),
    Filler(MidLen),
    <<" ", "I", "D", "K", " ">>,
    Filler(MidLen) \o <<" ", "B", "a", "n", "a", "n", "a", ".">> }

AnswerSeqs == UNION {[1..k -> AnswerCatalogue] : k \in 0..MaxAnswers}

InitQuality ==
  /\ StoreIdle
  /\ call \in [fn : {"compute_answer_quality"}, answers : AnswerSeqs]
  /\ ret = <<>>

CallAnswerQuality ==
  /\ call.fn = "compute_answer_quality"
  /\ ret = <<>>
  /\ \E tie \in Ties : ret' = <<compute_answer_quality(call.answers, tie)>>
  /\ UNCHANGED <<IDEAS, resp, pc, frame, call>>

SpecQuality == InitQuality /\ [][CallAnswerQuality]_vars

(***************************************************************************)
(* The external collaborators (the generative service behind               *)
(* get_ai_personality and generate_questions): what a call can come back   *)
(* with.  A call raises (service error, malformed response) or returns the *)
(* "json" value of the response, which is a dict or something else.        *)
(***************************************************************************)
Null == "<null>"

PersonalityDicts ==
  { [personality |-> "analytical", team_fit |-> "fits", summary |-> "solid"],
    <<>> }

get_ai_personality ==
  {[kind |-> "raise", val |-> <<>>], [kind |-> "null", val |-> <<>>]}
    \cup {[kind |-> "dict", val |-> d] : d \in PersonalityDicts}

\* Question lists the service returns (the prompt asks for five questions,
\* the handler stores whatever list comes back).
QuestionLists == { <<"q1">>, <<"q2", "q3">> }

generate_questions ==
  {[kind |-> "raise", val |-> <<>>]} \cup {[kind |-> "list", val |-> q] : q \in QuestionLists}

\* dict.get(key, default)
get(d, key, default) == IF key \in DOMAIN d THEN d[key] ELSE default

(***************************************************************************)
(* Evaluate builder.  personality is what get_ai_personality came back     *)
(* with; the result is [raised |-> TRUE] when the call or a .get on its    *)
(* value raises, else the evaluation record.                               *)
(***************************************************************************)
evaluate_builder(idea, builder, questions, answers, personality, tie_q, tie_r) ==
  LET skill_match == compute_skill_match(ListValue(idea.tech_stack),
                                         ListValue(builder.tech_stack))
      answer_quality == compute_answer_quality(answers, tie_q)
      readiness == compute_final_readiness(skill_match, answer_quality, tie_r)
  IN  IF personality.kind # "dict" THEN [raised |-> TRUE]
      ELSE [raised |-> FALSE,
            value |-> [readiness_score |-> readiness,
                       skill_match_ratio |-> skill_match,
                       answer_quality |-> answer_quality,
                       personality |-> get(personality.val, "personality", "unknown"),
                       team_fit |-> get(personality.val, "team_fit", ""),
                       summary |-> get(personality.val, "summary", "")]]

(***************************************************************************)
(* The store and its request handlers.  The text fields a handler copies   *)
(* from the request without reading them (idea_title, problem_statement,   *)
(* solution_summary, engagement_type, notes; contact, email,               *)
(* years_of_experience, comments) are left out; name stands for them.      *)
(***************************************************************************)
find_idea_index(idea_id) ==
  IF \E idx \in 1..Len(IDEAS) : IDEAS[idx].id = idea_id
  THEN SetMin({idx \in 1..Len(IDEAS) : IDEAS[idx].id = idea_id})
  ELSE 0

RECURSIVE SumInts(_)
SumInts(s) == IF s = <<>> THEN 0 ELSE Head(s) + SumInts(Tail(s))

\* The idea record post_idea builds when the store holds count ideas.
new_idea(data, count) ==
  [id |-> count + 1,
   tech_stack |-> normalize_tech_stack(data.tech_stack),
   team_requirements |-> data.team_requirements,
   required_team_size |-> data.required_team_size,
   generated_questions |-> <<>>,
   interests |-> <<>>]

\* The builder record submit_interest builds.
new_builder(data) ==
  [name |-> data.name, tech_stack |-> normalize_tech_stack(data.tech_stack)]

RECURSIVE TotalInterests(_)
TotalInterests(ideas) ==
  IF ideas = <<>> THEN 0 ELSE Len(Head(ideas).interests) + TotalInterests(Tail(ideas))

\* Mutant: interests are numbered across the whole store.
new_interest_StoreWide(count, builder, answers, evaluation) ==
  [interest_id |-> TotalInterests(IDEAS) + 1,
   name |-> builder.name,
   tech_stack |-> builder.tech_stack,
   answers |-> answers,
   evaluation |-> evaluation]

\* The interest record submit_interest builds when the idea holds count interests.
new_interest(count, builder, answers, evaluation) ==
  [interest_id |-> count + 1,
   name |-> builder.name,
   tech_stack |-> builder.tech_stack,
   answers |-> answers,
   evaluation |-> evaluation]

\* Mutant: the questions are attached to a fresh copy of the idea.
attach_questions_Fresh(idea, q) ==
  [idea EXCEPT !.generated_questions = q, !.interests = <<>>]

\* IDEAS[idx]["generated_questions"] = q
attach_questions(idea, q) == [idea EXCEPT !.generated_questions = q]

\* idea["interests"].append(interest)
append_interest(idea, interest) ==
  [idea EXCEPT !.interests = Append(idea.interests, interest)]

Response(op, status) == [op |-> op, status |-> status]

post_idea(data) ==
  /\ IF data.missing
     THEN /\ resp' = Response("post_idea", 400)
          /\ UNCHANGED IDEAS
     ELSE IF SumInts(data.team_requirements) # data.required_team_size
     THEN /\ resp' = Response("post_idea", 400)
          /\ UNCHANGED IDEAS
     ELSE /\ Len(IDEAS) < MaxIdeas
          /\ IDEAS' = Append(IDEAS, new_idea(data, Len(IDEAS)))
          /\ resp' = Response("post_idea", 201)
  /\ UNCHANGED <<pc, frame, call, ret>>

gen_q(idea_id) ==
  /\ LET idx == find_idea_index(idea_id)
     IN  IF idx = 0
         THEN /\ resp' = Response("gen_q", 404)
              /\ UNCHANGED IDEAS
         ELSE \E q \in generate_questions :
                IF q.kind = "raise"
                THEN /\ resp' = Response("gen_q", 500)
                     /\ UNCHANGED IDEAS
                ELSE /\ IDEAS' = [IDEAS EXCEPT ![idx] = attach_questions(IDEAS[idx], q.val)]
                     /\ resp' = Response("gen_q", 200)
  /\ UNCHANGED <<pc, frame, call, ret>>

submit_interest(idea_id, data) ==
  /\ LET idx == find_idea_index(idea_id)
     IN  IF idx = 0
         THEN /\ resp' = Response("submit_interest", 404)
              /\ UNCHANGED IDEAS
         ELSE IF data.missing
         THEN /\ resp' = Response("submit_interest", 400)
              /\ UNCHANGED IDEAS
         ELSE LET idea == IDEAS[idx]
                  questions == idea.generated_questions
                  answers == data.answers
                  builder == new_builder(data)
              IN  IF Len(questions) # Len(answers)
                  THEN /\ resp' = Response("submit_interest", 400)
                       /\ UNCHANGED IDEAS
                  ELSE \E personality \in get_ai_personality, tie_q \in Ties, tie_r \in Ties :
                         LET evaluation == evaluate_builder(idea, builder, questions, answers,
                                                            personality, tie_q, tie_r)
                         IN  IF evaluation.raised
                             THEN /\ resp' = Response("submit_interest", 500)
                                  /\ UNCHANGED IDEAS
                             ELSE /\ TotalInterests(IDEAS) < MaxInterests
                                  /\ IDEAS' = [IDEAS EXCEPT ![idx] =
                                       append_interest(idea,
                                         new_interest(Len(idea.interests), builder, answers,
                                                      evaluation.value))]
                                  /\ resp' = Response("submit_interest", 201)
  /\ UNCHANGED <<pc, frame, call, ret>>

(***************************************************************************)
(* Requests.                                                               *)
(***************************************************************************)
IdeaStackValues ==
  { StrValue(<<"A", " ", ",", " ", "a", ",">>),
    ListValue(<< <<"a">>, <<" ">>, <<" ", "b">> >>) }

\* A request that lacks a required field, and the complete ones.
IdeaRequests ==
  {[missing |-> TRUE, tech_stack |-> NoneValue,
    team_requirements |-> <<>>, required_team_size |-> 0]}
    \cup [missing : {FALSE}, tech_stack : IdeaStackValues,
          team_requirements : {<<1, 1>>}, required_team_size : {2, 3}]

BuilderStackValues == { StrValue(<<" ", "B", ",", ",", "b", ",", "c">>) }

StoreAnswerSeqs ==
  { <<>>,
    << <<" ", "I", "D", "K", " ">> >>,
    << <<"y", "e", "s">>, <<"G", "o", " ">> >> }

InterestRequests ==
  {[missing |-> TRUE, name |-> "", tech_stack |-> NoneValue, answers |-> <<>>]}
    \cup [missing : {FALSE}, name : {"ann"}, tech_stack : BuilderStackValues,
          answers : StoreAnswerSeqs]

IdeaIds == 1..(MaxIdeas + 1)

(***************************************************************************)
(* The handlers run one at a time.                                         *)
(***************************************************************************)
Init ==
  /\ IDEAS = <<>>
  /\ resp = NoResp
  /\ pc = [t \in Threads |-> "idle"]
  /\ frame = [t \in Threads |-> NoFrame]
  /\ call = NoCall
  /\ ret = <<>>

Next ==
  \/ \E data \in IdeaRequests : post_idea(data)
  \/ \E idea_id \in IdeaIds : gen_q(idea_id)
  \/ \E idea_id \in IdeaIds : \E data \in InterestRequests : submit_interest(idea_id, data)

Spec == Init /\ [][Next]_vars

(***************************************************************************)
(* The handlers run concurrently (the development server started by        *)
(* app.run serves each request in a thread of its own and the handlers     *)
(* take no lock): thread t serves one request and is done.  A handler is   *)
(* cut where another thread can run between two accesses to IDEAS: between *)
(* reading a list's length and appending to that list, and around the call *)
(* to the external service.  frame[t] holds the handler's local variables; *)
(* idx stands for the reference to IDEAS[idx] the handler holds (ideas are *)
(* never removed or moved).                                                *)
(***************************************************************************)
Idle(t) == pc[t] = "idle"

Goto(t, label, locals) ==
  /\ pc' = [pc EXCEPT ![t] = label]
  /\ frame' = [frame EXCEPT ![t] = locals]

Return(t, op, status) ==
  /\ pc' = [pc EXCEPT ![t] = "done"]
  /\ frame' = [frame EXCEPT ![t] = NoFrame]
  /\ resp' = Response(op, status)

\* post_idea up to the idea record (its id read from len(IDEAS)).
post_idea_build(t, data) ==
  /\ Idle(t)
  /\ IF data.missing \/ SumInts(data.team_requirements) # data.required_team_size
     THEN Return(t, "post_idea", 400)
     ELSE /\ Goto(t, "post_idea_append",
                  [op |-> "post_idea", idea |-> new_idea(data, Len(IDEAS))])
          /\ UNCHANGED resp
  /\ UNCHANGED <<IDEAS, call, ret>>

\* IDEAS.append(idea)
post_idea_append(t) ==
  /\ pc[t] = "post_idea_append"
  /\ Len(IDEAS) < MaxIdeas
  /\ IDEAS' = Append(IDEAS, frame[t].idea)
  /\ Return(t, "post_idea", 201)
  /\ UNCHANGED <<call, ret>>

\* gen_q up to the call of generate_questions.
gen_q_call(t, idea_id) ==
  /\ Idle(t)
  /\ LET idx == find_idea_index(idea_id)
     IN  IF idx = 0
         THEN Return(t, "gen_q", 404)
         ELSE /\ Goto(t, "gen_q_attach", [op |-> "gen_q", idx |-> idx])
              /\ UNCHANGED resp
  /\ UNCHANGED <<IDEAS, call, ret>>

\* generate_questions returns or raises; the questions are attached.
gen_q_attach(t) ==
  /\ pc[t] = "gen_q_attach"
  /\ \E q \in generate_questions :
       IF q.kind = "raise"
       THEN /\ Return(t, "gen_q", 500)
            /\ UNCHANGED IDEAS
       ELSE /\ IDEAS' = [IDEAS EXCEPT ![frame[t].idx] =
                           attach_questions(IDEAS[frame[t].idx], q.val)]
            /\ Return(t, "gen_q", 200)
  /\ UNCHANGED <<call, ret>>

\* submit_interest up to the call of get_ai_personality inside evaluate_builder.
submit_interest_check(t, idea_id, data) ==
  /\ Idle(t)
  /\ LET idx == find_idea_index(idea_id)
     IN  IF idx = 0
         THEN Return(t, "submit_interest", 404)
         ELSE IF data.missing \/ Len(IDEAS[idx].generated_questions) # Len(data.answers)
         THEN Return(t, "submit_interest", 400)
         ELSE /\ Goto(t, "submit_interest_evaluate",
                      [op |-> "submit_interest", idx |-> idx,
                       questions |-> IDEAS[idx].generated_questions,
                       answers |-> data.answers,
                       builder |-> new_builder(data)])
              /\ UNCHANGED resp
  /\ UNCHANGED <<IDEAS, call, ret>>

\* get_ai_personality returns or raises; the evaluation and the interest
\* record (its interest_id read from len(idea["interests"])) are built.
submit_interest_evaluate(t) ==
  /\ pc[t] = "submit_interest_evaluate"
  /\ \E personality \in get_ai_personality, tie_q \in Ties, tie_r \in Ties :
       LET f == frame[t]
           idea == IDEAS[f.idx]
           evaluation == evaluate_builder(idea, f.builder, f.questions, f.answers,
                                          personality, tie_q, tie_r)
       IN  IF evaluation.raised
           THEN Return(t, "submit_interest", 500)
           ELSE /\ Goto(t, "submit_interest_append",
                        [op |-> "submit_interest", idx |-> f.idx,
                         interest |-> new_interest(Len(idea.interests), f.builder,
                                                   f.answers, evaluation.value)])
                /\ UNCHANGED resp
  /\ UNCHANGED <<IDEAS, call, ret>>

\* idea["interests"].append(interest)
submit_interest_append(t) ==
  /\ pc[t] = "submit_interest_append"
  /\ TotalInterests(IDEAS) < MaxInterests
  /\ IDEAS' = [IDEAS EXCEPT ![frame[t].idx] =
                 append_interest(IDEAS[frame[t].idx], frame[t].interest)]
  /\ Return(t, "submit_interest", 201)
  /\ UNCHANGED <<call, ret>>

ConcIdeaRequests ==
  [missing : {FALSE}, tech_stack : {ListValue(<< <<"a">>, <<" ", "b">> >>)},
   team_requirements : {<<1, 1>>}, required_team_size : {2, 3}]

ConcInterestRequests ==
  [missing : {FALSE}, name : {"ann"}, tech_stack : BuilderStackValues,
   answers : {<<>>, <<<<"y", "e", "s">>>>}]

NextConc ==
  \E t \in Threads :
    \/ \E data \in ConcIdeaRequests : post_idea_build(t, data)
    \/ post_idea_append(t)
    \/ \E idea_id \in IdeaIds : gen_q_call(t, idea_id)
    \/ gen_q_attach(t)
    \/ \E idea_id \in IdeaIds : \E data \in ConcInterestRequests :
         submit_interest_check(t, idea_id, data)
    \/ submit_interest_evaluate(t)
    \/ submit_interest_append(t)

SpecConc == Init /\ [][NextConc]_vars

(***************************************************************************)
(* Properties of the readiness combiner (under SpecReadiness).             *)
(***************************************************************************)
ReadinessReturned == call.fn = "compute_final_readiness" /\ ret # <<>>

\* The exact score (skill_match*0.55 + answer_quality*0.45)*10 of the call.
ExactScore ==
  Rat(55 * call.skill_match.n * call.answer_quality.d
        + 45 * call.answer_quality.n * call.skill_match.d,
      10 * call.skill_match.d * call.answer_quality.d)

\* x is y rounded to ndigits decimals: a multiple of 10^-ndigits at most half
\* a unit away from y.
IsRounded(x, y, ndigits) ==
  /\ Pow10(ndigits) % x.d = 0
  /\ LET diff == x.n * y.d - y.n * x.d
         dist == IF diff < 0 THEN -diff ELSE diff
     IN  2 * Pow10(ndigits) * dist <= x.d * y.d

\* C1: compute_final_readiness returns the exact score rounded to one
\* decimal, except that the score is first cut down to 2.5 when skill_match
\* is exactly 0 and otherwise to 3.0 when answer_quality < 0.25; the
\* zero-skill cap comes first, and a cap never raises a score below it.
C1_ReadinessFormula ==
  ReadinessReturned =>
    LET capped ==
          IF call.skill_match.n = 0
          THEN (IF RLe(ExactScore, Rat(5, 2)) THEN ExactScore ELSE Rat(5, 2))
          ELSE IF 100 * call.answer_quality.n < 25 * call.answer_quality.d
          THEN (IF RLe(ExactScore, Rat(3, 1)) THEN ExactScore ELSE Rat(3, 1))
          ELSE ExactScore
    IN  IsRounded(ret[1], capped, 1)

\* The low-quality cap has acted: full skill match, answer quality 0.2,
\* exact score 6.4, returned 3.0.
C1_Witness ==
  /\ ReadinessReturned
  /\ call.skill_match = Rat(1, 1)
  /\ call.answer_quality = Rat(20, 100)
  /\ ret[1] = Rat(3, 1)

AtBestInputs == call.skill_match = Rat(1, 1) /\ call.answer_quality = Rat(9, 10)

\* C8 as stated: compute_final_readiness returns a value in [0, 9.25].
C8_CeilingAsStated ==
  ReadinessReturned => RLe(Rat(0, 1), ret[1]) /\ RLe(ret[1], Rat(925, 100))

\* C8 amended: the exact score has the ceiling 9.55, so the returned value
\* lies in [0, 9.6]; skill_match 1.0 with answer_quality 0.9 returns at least
\* 9.5 and no other input returns more than 9.5.
C8_Ceiling ==
  ReadinessReturned =>
    /\ RLe(Rat(0, 1), ret[1]) /\ RLe(ret[1], Rat(96, 10))
    /\ AtBestInputs => RLe(Rat(95, 10), ret[1])
    /\ ~AtBestInputs => RLe(ret[1], Rat(95, 10))

\* The call at the best inputs has returned.
C8_Witness == ReadinessReturned /\ AtBestInputs /\ RLt(Rat(925, 100), ret[1])

(***************************************************************************)
(* Properties of the skill match scorer (under SpecSkill).                 *)
(***************************************************************************)
SkillReturned == call.fn = "compute_skill_match" /\ ret # <<>>

\* The tokens of a raw stack value, stated on positions: a token of a text is
\* what lies between two neighbouring commas (or an end of the text), a token
\* of a list is an item; each without its surrounding whitespace, lower-cased,
\* and dropped when nothing is left.
TrimOf(s) ==
  LET i == CHOOSE a \in 1..(Len(s) + 1) :
             /\ \A k \in 1..(a - 1) : s[k] \in Whitespace
             /\ a <= Len(s) => s[a] \notin Whitespace
      j == CHOOSE b \in 0..Len(s) :
             /\ \A k \in (b + 1)..Len(s) : s[k] \in Whitespace
             /\ b >= 1 => s[b] \notin Whitespace
  IN  SubSeq(s, i, j)

Pieces(value) ==
  IF value.kind = "list" THEN Range(value.val)
  ELSE IF value.kind = "str"
  THEN LET s == value.val
           cut == {0, Len(s) + 1} \cup {i \in 1..Len(s) : s[i] = ","}
       IN  {SubSeq(s, a + 1, b - 1) :
              <<a, b>> \in {c \in cut \X cut :
                  c[1] < c[2] /\ \A k \in (c[1] + 1)..(c[2] - 1) : k \notin cut}}
  ELSE {}

TokenSet(value) == {lower(TrimOf(p)) : p \in Pieces(value)} \ {<<>>}

SwapCaseChar(c) ==
  IF \E i \in DOMAIN UpperLetters : UpperLetters[i] = c THEN LowerChar(c)
  ELSE IF \E i \in DOMAIN LowerLetters : LowerLetters[i] = c
  THEN UpperLetters[CHOOSE i \in DOMAIN LowerLetters : LowerLetters[i] = c]
  ELSE c

SwapCaseStr(s) == [i \in 1..Len(s) |-> SwapCaseChar(s[i])]

\* The same stack in the other letter case.
SwapCase(value) ==
  IF value.kind = "list"
  THEN ListValue([i \in 1..Len(value.val) |-> SwapCaseStr(value.val[i])])
  ELSE IF value.kind = "str" THEN StrValue(SwapCaseStr(value.val))
  ELSE value

Reverse(s) == [i \in 1..Len(s) |-> s[Len(s) + 1 - i]]

\* The same stack with its tokens in reverse order.
Reordered(value) ==
  IF value.kind = "list" THEN ListValue(Reverse(value.val))
  ELSE IF value.kind = "str"
  THEN LET r == Reverse(value.val)
           rs == split(r, ",")
       IN  StrValue(Join([i \in 1..Len(rs) |-> Reverse(rs[i])], ","))
  ELSE value

\* The same stack with every token written twice.
Doubled(value) ==
  IF value.kind = "list" THEN ListValue(value.val \o value.val)
  ELSE IF value.kind = "str" THEN StrValue(value.val \o <<",">> \o value.val)
  ELSE value

Variants(value) == {SwapCase(value), Reordered(value), Doubled(value)}

\* C2: compute_skill_match returns |idea_set /\ builder_set| / |idea_set| over
\* the normalized lower-cased token sets: a value in [0,1], exactly 0.0 when
\* the idea's set or the intersection is empty, the same for either letter
\* case, for repeated tokens and for any token order in either stack, and
\* whole tokens only (no partial matching).
C2_SkillMatchFormula ==
  SkillReturned =>
    LET idea_set == TokenSet(call.idea_tech_stack)
        builder_set == TokenSet(call.builder_tech_stack)
        common == Cardinality(idea_set \cap builder_set)
        r == ret[1]
    IN  /\ 0 <= r.n /\ r.n <= r.d /\ r.d >= 1
        /\ (idea_set = {} \/ common = 0) => r = Rat(0, 1)
        /\ idea_set # {} => r.n * Cardinality(idea_set) = common * r.d
        /\ \A v \in Variants(call.idea_tech_stack) :
             compute_skill_match(v, call.builder_tech_stack) = r
        /\ \A v \in Variants(call.builder_tech_stack) :
             compute_skill_match(call.idea_tech_stack, v) = r

\* Half the idea's stack is covered: the idea asks for "A , b" (a text), the
\* builder offers ["a", "ab"] (a list): "A" matches "a", "b" does not match "ab".
C2_Witness ==
  /\ SkillReturned
  /\ call.idea_tech_stack = StrValue(<<"A", " ", ",", " ", "b">>)
  /\ call.builder_tech_stack = ListValue(<< <<"a">>, <<"a", "b">> >>)
  /\ ret[1] = Rat(1, 2)

(***************************************************************************)
(* Properties of the answer quality scorer (under SpecQuality).            *)
(***************************************************************************)
QualityReturned == call.fn = "compute_answer_quality" /\ ret # <<>>

\* The score of one answer as the rule states it, in tenths.
RuleScore(ans) ==
  LET txt == lower(TrimOf(ans))
  IN  IF \E tok \in Range(bad_tokens) : \E i \in 0..(Len(txt) - Len(tok)) :
           \A k \in 1..Len(tok) : txt[i + k] = tok[k]
      THEN 0
      ELSE IF Len(txt) < 20 THEN 2
      ELSE IF Len(txt) < 50 THEN 5
      ELSE 9

RECURSIVE RuleTotal(_)
RuleTotal(answers) ==
  IF answers = <<>> THEN 0 ELSE RuleScore(Head(answers)) + RuleTotal(Tail(answers))

\* C3: compute_answer_quality returns 0.0 for no answers and otherwise the
\* mean, rounded to two decimals, of the per-answer scores 0.0 (a low-effort
\* phrase occurs in the trimmed lower-cased answer, whatever its length),
\* 0.2 (length < 20), 0.5 (length < 50), 0.9; the result lies in [0, 0.9].
C3_AnswerQualityFormula ==
  QualityReturned =>
    /\ RLe(Rat(0, 1), ret[1]) /\ RLe(ret[1], Rat(9, 10))
    /\ call.answers = <<>> => ret[1] = Rat(0, 1)
    /\ call.answers # <<>> =>
         IsRounded(ret[1], Rat(RuleTotal(call.answers), 10 * Len(call.answers)), 2)

\* Four answers scoring 0.0 (a long answer with "na" inside a word), 0.2, 0.5
\* and 0.9: the mean 0.4 is returned.
C3_Witness ==
  /\ QualityReturned
  /\ Len(call.answers) = 4
  /\ {RuleScore(call.answers[i]) : i \in 1..4} = {0, 2, 5, 9}
  /\ \E i \in 1..4 : Len(call.answers[i]) >= 50 /\ RuleScore(call.answers[i]) = 0
  /\ ret[1] = Rat(4, 10)

(***************************************************************************)
(* Properties of the store, the handlers run one at a time (under Spec).   *)
(***************************************************************************)
\* C4: every record's id is its 1-based position in its owning list: the
\* k-th idea has id k and the j-th interest of an idea has interest_id j,
\* whatever the other ideas hold; so no two ideas share an id and no two
\* interests of one idea share an interest_id.
C4_IdsArePositions ==
  \A k \in 1..Len(IDEAS) :
    /\ IDEAS[k].id = k
    /\ \A j \in 1..Len(IDEAS[k].interests) : IDEAS[k].interests[j].interest_id = j

\* Two ideas, each with an interest of its own.
C4_Witness ==
  /\ Len(IDEAS) = 2
  /\ Len(IDEAS[1].interests) = 1
  /\ Len(IDEAS[2].interests) = 1

\* C7 as stated: a submission that passes validation is always recorded with
\* its evaluation, whatever the personality collaborator does: the handler
\* never fails (status 500) once the validation has passed.
C7_ValidSubmissionRecorded == resp # Response("submit_interest", 500)

StoredStacks ==
  {IDEAS[k].tech_stack : k \in 1..Len(IDEAS)}
    \cup UNION {{IDEAS[k].interests[j].tech_stack : j \in 1..Len(IDEAS[k].interests)}
                  : k \in 1..Len(IDEAS)}

\* C9 as stated: no two tokens of a stored idea's tech stack are equal after
\* lower-casing.
C9_DistinctAsStated ==
  \A k \in 1..Len(IDEAS) :
    \A i, j \in 1..Len(IDEAS[k].tech_stack) :
      i # j => lower(IDEAS[k].tech_stack[i]) # lower(IDEAS[k].tech_stack[j])

\* C9 amended: every tech stack held in the store, an idea's or an
\* interest's, is in the normalizer's form: each token is non-empty and has
\* no whitespace at either end (tokens are kept in the order and the casing
\* given and are not deduplicated).
C9_StoredStacksNormalized ==
  \A stack \in StoredStacks :
    \A i \in 1..Len(stack) :
      /\ stack[i] # <<>>
      /\ stack[i][1] \notin Whitespace
      /\ stack[i][Len(stack[i])] \notin Whitespace

\* An idea created with the text "A , a," holds the stack ["A", "a"], and an
\* interest submitted with " B,,b,c" holds ["B", "b", "c"].
C9_Witness ==
  /\ \E k \in 1..Len(IDEAS) :
       /\ IDEAS[k].tech_stack = << <<"A">>, <<"a">> >>
       /\ \E j \in 1..Len(IDEAS[k].interests) :
            IDEAS[k].interests[j].tech_stack = << <<"B">>, <<"b">>, <<"c">> >>

InterestsKept ==
  \A k \in 1..Len(IDEAS) :
    /\ k <= Len(IDEAS')
    /\ \A j \in 1..Len(IDEAS[k].interests) :
         /\ j <= Len(IDEAS'[k].interests)
         /\ IDEAS'[k].interests[j] = IDEAS[k].interests[j]

OnlyQuestionsOfTargetChange ==
  /\ Len(IDEAS') = Len(IDEAS)
  /\ \A k \in 1..Len(IDEAS) :
       IDEAS'[k] = [IDEAS[k] EXCEPT !.generated_questions = IDEAS'[k].generated_questions]
  /\ \A idea_id \in IdeaIds :
       gen_q(idea_id) => \A k \in 1..Len(IDEAS) : IDEAS[k].id # idea_id => IDEAS'[k] = IDEAS[k]

\* C10: every request leaves every interest already recorded as it is (same
\* position, interest_id, builder fields, answers, evaluation); a question
\* generation changes nothing but the generated_questions of its target; a
\* rejected request (404, 400) changes nothing in the store.
C10_InterestsImmutable ==
  [][/\ InterestsKept
     /\ resp'.op = "gen_q" => OnlyQuestionsOfTargetChange
     /\ resp'.status \in {400, 404} => IDEAS' = IDEAS]_vars

\* Questions were generated again after an interest was recorded: the idea
\* holds an interest with fewer or more answers than it now has questions.
C10_Witness ==
  /\ resp = Response("gen_q", 200)
  /\ \E k \in 1..Len(IDEAS) :
       /\ IDEAS[k].interests # <<>>
       /\ Len(IDEAS[k].interests[1].answers) # Len(IDEAS[k].generated_questions)

(***************************************************************************)
(* Properties of the store, the handlers run concurrently (under SpecConc).*)
(***************************************************************************)
\* C5 as stated: under every interleaving, an interest is appended with as
\* many answers as its idea has generated questions at that moment.
C5_AnswersMatchAtAppend ==
  [][\A k \in 1..Len(IDEAS) :
       Len(IDEAS'[k].interests) > Len(IDEAS[k].interests) =>
         Len(IDEAS'[k].interests[Len(IDEAS'[k].interests)].answers)
           = Len(IDEAS[k].generated_questions)]_vars

\* C6 as stated: with concurrent creations and submissions no two ideas end
\* up with the same id and no two interests of one idea with the same
\* interest_id.
C6_UniqueIds ==
  /\ \A k, m \in 1..Len(IDEAS) : k # m => IDEAS[k].id # IDEAS[m].id
  /\ \A k \in 1..Len(IDEAS) :
       \A i, j \in 1..Len(IDEAS[k].interests) :
         i # j => IDEAS[k].interests[i].interest_id # IDEAS[k].interests[j].interest_id

====
